---- MODULE Spec2Model ----
(***************************************************************************)
(* GC::ControlBlock<T> and GC::Ptr<T> (src/gc/cpp/Cpp_Ptr.hpp) with        *)
(* T = Node (src/test1.cpp): a value that carries one member handle, next. *)
(*                                                                         *)
(* Every atomic operation on a control block is one step of a call frame.  *)
(* A thread's call stack is a sequence of frames, the running call first.  *)
(* The sequential specifications run one handler to completion per action; *)
(* the concurrent ones interleave the frames' steps of several threads.    *)
(***************************************************************************)
EXTENDS Integers, Sequences, FiniteSets, TLC

\* ------------------------------------------------------------------ bounds
NumCB == 2              \* values (and their control blocks) ever allocated
SeqSlots == 3           \* handle variables of the single-threaded program
NumThreads == 2         \* threads of the concurrent programs
SlotsPerThread == 2     \* handle variables of each thread
ConcValues == 1         \* values the threads of the concurrent programs share
MaxCopies == 4          \* N, the copies made in the round trip
CounterModulus == 16    \* size_t counters are kept modulo this (2^64 scaled down)
MaxBlocks == 3          \* blocks the C program allocates
MaxSize == 2            \* largest size and count passed to the C allocators

CBs == 1..NumCB
NullCB == 0
Threads == 1..NumThreads
ConcSlots == 1..(NumThreads * SlotsPerThread)
Max(m, n) == IF m > n THEN m ELSE n
MaxSlots == Max(Max(SeqSlots, MaxCopies + 1), NumThreads * SlotsPerThread)
Slots == 1..MaxSlots
Member(c) == MaxSlots + c          \* the handle Node::next of the value of block c
Handles == 1..(MaxSlots + NumCB)
Owner(hd) == ((hd - 1) % NumThreads) + 1

VARIABLES
  cb,     \* cb[c]: the ControlBlock c: st, strong, weak, ptr, destroyed
  h,      \* h[hd]: the Ptr hd: live (constructed, not yet destructed), ctrl, weak
  stk,    \* stk[t]: call stack of thread t, running frame first
  del,    \* del[c]: number of times `delete p` ran on the value of block c
  free,   \* free[c]: number of times `delete this` ran on block c
  uaf,    \* some access hit freed memory (block or handle), or a double delete
  wrap,   \* some fetch_sub took a counter below zero (size_t wrap-around)
  heap,   \* heap[b]: the char array b of the C allocators: st, size, zeroed,
          \* owners (use count of its shared_ptr), logged ("Freed memory @" printed)
  call,   \* the running gc_local_malloc / gc_local_calloc call, or NoCall
  held    \* the raw addresses the C caller has been handed

vars == <<cb, h, stk, del, free, uaf, wrap, heap, call, held>>

\* ------------------------------------------------------------ state record
St(t) == [cb |-> cb, h |-> h, stk |-> stk[t], del |-> del, free |-> free,
          uaf |-> uaf, wrap |-> wrap]

Commit(t, s) ==
  /\ cb' = s.cb
  /\ h' = s.h
  /\ stk' = [stk EXCEPT ![t] = s.stk]
  /\ del' = s.del
  /\ free' = s.free
  /\ uaf' = s.uaf
  /\ wrap' = s.wrap
  /\ UNCHANGED <<heap, call, held>>

\* What a read of freed memory may return: a flag b; a counter n, which the code
\* only compares with 0 and with 1; a control-block pointer, null or block n.
Oracle == [n : 0..1, b : BOOLEAN]

Frame(k, pc, c, a, b, n) == [k |-> k, pc |-> pc, c |-> c, a |-> a, b |-> b, n |-> n]
Push(s, f) == [s EXCEPT !.stk = <<f>> \o @]
Pop(s) == [s EXCEPT !.stk = Tail(@)]
SetPc(s, pc) == [s EXCEPT !.stk[1].pc = pc]
Bad(s) == [s EXCEPT !.uaf = TRUE]

Live(s, c) == c \in CBs /\ s.cb[c].st = "live"
Inc(n) == (n + 1) % CounterModulus
Dec(n) == (n + CounterModulus - 1) % CounterModulus

NoBlock == [st |-> "none", strong |-> 0, weak |-> 0, ptr |-> FALSE, destroyed |-> FALSE]
\* ControlBlock(T* p): strong 1, weak 0, ptr p, not destroyed
ControlBlock == [st |-> "live", strong |-> 1, weak |-> 0, ptr |-> TRUE, destroyed |-> FALSE]

NullPtr == [live |-> TRUE, ctrl |-> NullCB, weak |-> FALSE]    \* Ptr()
DeadPtr == [live |-> FALSE, ctrl |-> NullCB, weak |-> FALSE]   \* storage not a Ptr
MkPtr(c, w) == [live |-> TRUE, ctrl |-> c, weak |-> w]         \* Ptr(ctrl, is_weak)

\* Loads of ctrl_ and is_weak_ of handle hd; a handle whose storage is gone
\* (a member of a deleted value) reads as anything.
ReadPtr(s, hd, orc) ==
  IF s.h[hd].live THEN s.h[hd] ELSE [live |-> FALSE, ctrl |-> orc.n, weak |-> orc.b]
Touch(s, hd) == IF s.h[hd].live THEN s ELSE Bad(s)
\* Stores to ctrl_ and is_weak_ of handle hd.
SetPtr(s, hd, v) == IF s.h[hd].live THEN [s EXCEPT !.h[hd] = v] ELSE Bad(s)

\* --------------------------------------------------------- ControlBlock<T>
add_strong(s, c) ==
  IF Live(s, c) THEN [s EXCEPT !.cb[c].strong = Inc(@)] ELSE Bad(s)

add_weak(s, c) ==
  IF Live(s, c) THEN [s EXCEPT !.cb[c].weak = Inc(@)] ELSE Bad(s)

get_ptr(s, c) == IF Live(s, c) /\ s.cb[c].ptr THEN c ELSE NullCB

is_alive(s, c) == Live(s, c) /\ s.cb[c].strong > 0

\* `delete this`
DeleteThis(s, c) ==
  IF Live(s, c)
  THEN [s EXCEPT !.cb[c].st = "freed", !.free[c] = @ + 1]
  ELSE IF c \in CBs /\ s.free[c] < 2
       THEN [s EXCEPT !.uaf = TRUE, !.free[c] = @ + 1]
       ELSE Bad(s)

\* destroy_object(), as the steps of a release_strong frame f.
destroy_object(s, f, orc) ==
  LET c == f.c IN
  CASE f.pc = "destroy_cas" ->
         IF Live(s, c)
         THEN IF ~s.cb[c].destroyed
              THEN SetPc([s EXCEPT !.cb[c].destroyed = TRUE], "destroy_xchg")
              ELSE SetPc(s, "load_weak")
         ELSE SetPc(Bad(s), IF orc.b THEN "destroy_xchg" ELSE "load_weak")
    [] f.pc = "destroy_xchg" ->
         IF Live(s, c)
         THEN IF s.cb[c].ptr
              THEN SetPc([s EXCEPT !.cb[c].ptr = FALSE], "destroy_delete")
              ELSE SetPc(s, "load_weak")
         ELSE SetPc(Bad(s), IF orc.b THEN "destroy_delete" ELSE "load_weak")
    [] OTHER ->  \* "destroy_delete": delete p, which runs ~Node()
         IF c \in CBs /\ s.del[c] = 0
         THEN Push(SetPc([s EXCEPT !.del[c] = 1], "load_weak"),
                   Frame("dtor", "member", c, 0, 0, 0))
         ELSE IF c \in CBs
              THEN SetPc([Bad(s) EXCEPT !.del[c] = 2], "load_weak")  \* double delete
              ELSE SetPc(Bad(s), "load_weak")

\* release_strong() that takes the count 2 -> 1 for the last release as well
release_strong_early(s, f, orc) ==
  LET c == f.c IN
  CASE f.pc = "fetch_sub" ->
         LET old == IF Live(s, c) THEN s.cb[c].strong ELSE orc.n
             s1 == IF Live(s, c)
                   THEN [s EXCEPT !.cb[c].strong = Dec(@),
                                  !.wrap = @ \/ (s.cb[c].strong = 0)]
                   ELSE Bad(s)
         IN IF old = 1 \/ old = 2 THEN SetPc(s1, "destroy_cas") ELSE Pop(s1)
    [] f.pc = "load_weak" ->
         LET w == IF Live(s, c) THEN s.cb[c].weak ELSE orc.n
             s1 == IF Live(s, c) THEN s ELSE Bad(s)
         IN IF w = 0 THEN SetPc(s1, "delete_this") ELSE Pop(s1)
    [] f.pc = "delete_this" -> Pop(DeleteThis(s, c))
    [] OTHER -> destroy_object(s, f, orc)

release_strong(s, f, orc) ==
  LET c == f.c IN
  CASE f.pc = "fetch_sub" ->
         LET old == IF Live(s, c) THEN s.cb[c].strong ELSE orc.n
             s1 == IF Live(s, c)
                   THEN [s EXCEPT !.cb[c].strong = Dec(@),
                                  !.wrap = @ \/ (s.cb[c].strong = 0)]
                   ELSE Bad(s)
         IN IF old = 1 THEN SetPc(s1, "destroy_cas") ELSE Pop(s1)
    [] f.pc = "load_weak" ->
         LET w == IF Live(s, c) THEN s.cb[c].weak ELSE orc.n
             s1 == IF Live(s, c) THEN s ELSE Bad(s)
         IN IF w = 0 THEN SetPc(s1, "delete_this") ELSE Pop(s1)
    [] f.pc = "delete_this" -> Pop(DeleteThis(s, c))
    [] OTHER -> destroy_object(s, f, orc)

release_weak(s, f, orc) ==
  LET c == f.c IN
  CASE f.pc = "fetch_sub" ->
         LET old == IF Live(s, c) THEN s.cb[c].weak ELSE orc.n
             s1 == IF Live(s, c)
                   THEN [s EXCEPT !.cb[c].weak = Dec(@),
                                  !.wrap = @ \/ (s.cb[c].weak = 0)]
                   ELSE Bad(s)
         IN IF old = 1 THEN SetPc(s1, "load_strong") ELSE Pop(s1)
    [] f.pc = "load_strong" ->
         LET n == IF Live(s, c) THEN s.cb[c].strong ELSE orc.n
             s1 == IF Live(s, c) THEN s ELSE Bad(s)
         IN IF n = 0 THEN SetPc(s1, "delete_this") ELSE Pop(s1)
    [] OTHER -> Pop(DeleteThis(s, c))

\* try_add_strong() whose failed compare-exchange leaves `count` as it was
try_add_strong_stale(s, f, orc) ==
  LET c == f.c IN
  CASE f.pc = "tas_load" ->
         LET n == IF Live(s, c) THEN s.cb[c].strong ELSE orc.n
             s1 == IF Live(s, c) THEN s ELSE Bad(s)
         IN [SetPc(s1, "tas_cas") EXCEPT !.stk[1].n = n]
    [] OTHER ->
         IF f.n = 0
         THEN Pop([s EXCEPT !.h[f.a] = NullPtr])
         ELSE IF Live(s, c)
              THEN IF s.cb[c].strong = f.n
                   THEN Pop([s EXCEPT !.cb[c].strong = Inc(@),
                                      !.h[f.a] = MkPtr(c, FALSE)])
                   ELSE s
              ELSE IF orc.b
                   THEN Pop([Bad(s) EXCEPT !.h[f.a] = MkPtr(c, FALSE)])
                   ELSE Pop([Bad(s) EXCEPT !.h[f.a] = NullPtr])

\* try_add_strong() that adds without looking at the count
try_add_strong_blind(s, f, orc) ==
  LET c == f.c IN
  CASE f.pc = "tas_load" ->
         LET n == IF Live(s, c) THEN s.cb[c].strong ELSE orc.n
             s1 == IF Live(s, c) THEN s ELSE Bad(s)
         IN [SetPc(s1, "tas_cas") EXCEPT !.stk[1].n = n]
    [] OTHER ->
         IF Live(s, c)
         THEN Pop([s EXCEPT !.cb[c].strong = Inc(@), !.h[f.a] = MkPtr(c, FALSE)])
         ELSE Pop([Bad(s) EXCEPT !.h[f.a] = MkPtr(c, FALSE)])

\* try_add_strong(), as the steps of a lock frame f; f.n is the local `count`,
\* f.a the handle lock() returns into.
try_add_strong(s, f, orc) ==
  LET c == f.c IN
  CASE f.pc = "tas_load" ->
         LET n == IF Live(s, c) THEN s.cb[c].strong ELSE orc.n
             s1 == IF Live(s, c) THEN s ELSE Bad(s)
         IN [SetPc(s1, "tas_cas") EXCEPT !.stk[1].n = n]
    [] OTHER ->  \* "tas_cas": while (count > 0) compare_exchange_weak
         IF f.n = 0
         THEN Pop([s EXCEPT !.h[f.a] = NullPtr])                  \* return Ptr()
         ELSE IF Live(s, c)
              THEN IF s.cb[c].strong = f.n
                   THEN Pop([s EXCEPT !.cb[c].strong = Inc(@),
                                      !.h[f.a] = MkPtr(c, FALSE)]) \* Ptr(ctrl, false)
                   ELSE [s EXCEPT !.stk[1].n = s.cb[c].strong]    \* count reloaded
              ELSE IF orc.b
                   THEN Pop([Bad(s) EXCEPT !.h[f.a] = MkPtr(c, FALSE)])
                   ELSE Pop([Bad(s) EXCEPT !.h[f.a] = NullPtr])

\* ------------------------------------------------------------------ Ptr<T>
\* Ptr::release(): the call of release_weak / release_strong on the block.
release(s, hd, orc) ==
  LET p == ReadPtr(s, hd, orc)
      s1 == Touch(s, hd)
  IN IF p.ctrl = NullCB THEN s1
     ELSE Push(s1, Frame(IF p.weak THEN "rw" ELSE "rs", "fetch_sub", p.ctrl, 0, 0, 0))

\* ~Node(): the member next is destructed, then the storage is gone.
NodeDtor(s, f, orc) ==
  IF f.pc = "member"
  THEN release(SetPc(s, "dealloc"), Member(f.c), orc)
  ELSE Pop([s EXCEPT !.h[Member(f.c)] = DeadPtr])

\* a copy constructor that copies the fields and adds no unit
CopyCtor_uncounted(s, a, b, orc) ==
  LET p == ReadPtr(s, b, orc)
      s1 == Touch(s, b)
  IN [s1 EXCEPT !.h[a] = MkPtr(p.ctrl, p.weak)]

\* Ptr(const Ptr& other) into the unconstructed handle a.
CopyCtor(s, a, b, orc) ==
  LET p == ReadPtr(s, b, orc)
      s1 == Touch(s, b)
      s2 == IF p.ctrl = NullCB THEN s1
            ELSE IF p.weak THEN add_weak(s1, p.ctrl) ELSE add_strong(s1, p.ctrl)
  IN [s2 EXCEPT !.h[a] = MkPtr(p.ctrl, p.weak)]

\* Ref() that takes a strong reference to other's block
AfterRelease_strongRef(s, f, orc) ==
  CASE f.pc = "dtor" -> Pop([s EXCEPT !.h[f.a] = DeadPtr])
    [] f.pc = "reset" -> Pop(SetPtr(s, f.a, NullPtr))
    [] f.pc = "Ref" ->
         LET p == ReadPtr(s, f.b, orc)
             s1 == Touch(s, f.b)
         IN IF p.ctrl # NullCB /\ ~p.weak
            THEN Pop(SetPtr(add_strong(s1, p.ctrl), f.a, MkPtr(p.ctrl, FALSE)))
            ELSE Pop(s1)
    [] OTHER ->
         LET p == ReadPtr(s, f.b, orc)
             s1 == Touch(s, f.b)
         IN Pop(SetPtr(SetPtr(s1, f.b, NullPtr), f.a, MkPtr(p.ctrl, p.weak)))

\* The part of a handle operation that follows its call of release().
AfterRelease(s, f, orc) ==
  CASE f.pc = "dtor" -> Pop([s EXCEPT !.h[f.a] = DeadPtr])          \* ~Ptr()
    [] f.pc = "reset" -> Pop(SetPtr(s, f.a, NullPtr))                \* reset()
    [] f.pc = "Ref" ->
         LET p == ReadPtr(s, f.b, orc)
             s1 == Touch(s, f.b)
         IN IF p.ctrl # NullCB /\ ~p.weak
            THEN Pop(SetPtr(add_weak(s1, p.ctrl), f.a, MkPtr(p.ctrl, TRUE)))
            ELSE Pop(s1)
    [] OTHER ->  \* "move_assign"
         LET p == ReadPtr(s, f.b, orc)
             s1 == Touch(s, f.b)
         IN Pop(SetPtr(SetPtr(s1, f.b, NullPtr), f.a, MkPtr(p.ctrl, p.weak)))

\* Ptr(const Ptr& other) taken one atomic operation at a time, as the steps of a
\* copy frame f: f.b is other, f.a the handle under construction, f.c the
\* loaded other_ctrl, f.n the loaded other_weak (1 for true).
\* The variant that loads is_weak_ and adds on the opposite counter:
CopyCtorStep_crossed(s, f, orc) ==
  CASE f.pc = "load_ctrl" ->
         [SetPc(Touch(s, f.b), "load_weak") EXCEPT !.stk[1].c = ReadPtr(s, f.b, orc).ctrl]
    [] f.pc = "load_weak" ->
         [SetPc(Touch(s, f.b), "add") EXCEPT
            !.stk[1].n = IF ReadPtr(s, f.b, orc).weak THEN 1 ELSE 0]
    [] f.pc = "add" ->
         IF f.c = NullCB THEN SetPc(s, "store")
         ELSE IF f.n = 1 THEN SetPc(add_strong(s, f.c), "store")
         ELSE SetPc(add_weak(s, f.c), "store")
    [] OTHER ->
         Pop([s EXCEPT !.h[f.a] = MkPtr(f.c, f.n = 1)])

CopyCtorStep(s, f, orc) ==
  CASE f.pc = "load_ctrl" ->
         [SetPc(Touch(s, f.b), "load_weak") EXCEPT !.stk[1].c = ReadPtr(s, f.b, orc).ctrl]
    [] f.pc = "load_weak" ->
         [SetPc(Touch(s, f.b), "add") EXCEPT
            !.stk[1].n = IF ReadPtr(s, f.b, orc).weak THEN 1 ELSE 0]
    [] f.pc = "add" ->
         IF f.c = NullCB THEN SetPc(s, "store")
         ELSE IF f.n = 1 THEN SetPc(add_weak(s, f.c), "store")
         ELSE SetPc(add_strong(s, f.c), "store")
    [] OTHER ->  \* "store": ctrl_.store(other_ctrl); is_weak_.store(other_weak)
         Pop([s EXCEPT !.h[f.a] = MkPtr(f.c, f.n = 1)])

\* swap(other) taken one atomic operation at a time, as the steps of a swap
\* frame f: f.a is *this, f.b is other, f.c is my_ctrl, f.n is my_weak.
swapStep(s, f, orc) ==
  CASE f.pc = "xchg_ctrl" ->
         [SetPc([s EXCEPT !.h[f.a].ctrl = s.h[f.b].ctrl], "store_ctrl") EXCEPT
            !.stk[1].c = s.h[f.a].ctrl]
    [] f.pc = "store_ctrl" ->
         SetPc([s EXCEPT !.h[f.b].ctrl = f.c], "xchg_weak")
    [] f.pc = "xchg_weak" ->
         [SetPc([s EXCEPT !.h[f.a].weak = s.h[f.b].weak], "store_weak") EXCEPT
            !.stk[1].n = IF s.h[f.a].weak THEN 1 ELSE 0]
    [] OTHER ->  \* "store_weak"
         Pop([s EXCEPT !.h[f.b].weak = (f.n = 1)])

\* One step of the running frame.
Step(s, orc) ==
  LET f == Head(s.stk) IN
  CASE f.k = "rs" -> release_strong(s, f, orc)
    [] f.k = "rw" -> release_weak(s, f, orc)
    [] f.k = "dtor" -> NodeDtor(s, f, orc)
    [] f.k = "lock" -> try_add_strong(s, f, orc)
    [] f.k = "copy" -> CopyCtorStep(s, f, orc)
    [] f.k = "swap" -> swapStep(s, f, orc)
    [] OTHER -> AfterRelease(s, f, orc)

RECURSIVE Run(_, _)
Run(s, orc) == IF s.stk = <<>> THEN s ELSE Run(Step(s, orc), orc)

\* ---- the handle operations, up to their first call that takes steps
\* explicit Ptr(T* ptr), ptr = new Node: block c and its value come to exist
PtrFromRaw(s, a, c) ==
  [s EXCEPT !.cb[c] = ControlBlock, !.h[a] = MkPtr(c, FALSE), !.h[Member(c)] = NullPtr]

PtrDefault(s, a) == [s EXCEPT !.h[a] = NullPtr]

\* explicit Ptr(T* ptr), ptr = nullptr: no block is allocated
PtrFromNull(s, a) == [s EXCEPT !.h[a] = MkPtr(NullCB, FALSE)]

\* the catch block without its delete
PtrFromRawNoMem_leak(s, a, c) ==
  [s EXCEPT !.cb[c].st = "nomem", !.h[Member(c)] = NullPtr]

\* explicit Ptr(T* ptr), ptr = new Node, and new ControlBlock<T> throws: the
\* catch block runs delete ptr and rethrows; the handle a never comes to exist
\* and block c is never allocated.
PtrFromRawNoMem(s, a, c) ==
  Push([s EXCEPT !.cb[c].st = "nomem", !.h[Member(c)] = NullPtr, !.del[c] = @ + 1],
       Frame("dtor", "member", c, 0, 0, 0))

\* Ptr(Ptr&& other)
MoveCtor(s, a, b) == [s EXCEPT !.h[a] = s.h[b], !.h[b] = NullPtr]

\* ~Ptr()
PtrDtor(s, a, orc) == release(Push(s, Frame("op", "dtor", 0, a, 0, 0)), a, orc)

\* reset()
reset(s, a, orc) == release(Push(s, Frame("op", "reset", 0, a, 0, 0)), a, orc)

\* Ref(other)
Ref(s, a, b, orc) ==
  IF a = b THEN s
  ELSE release(Push(s, Frame("op", "Ref", 0, a, b, 0)), a, orc)

\* operator=(Ptr&& other)
MoveAssign(s, a, b, orc) ==
  IF a = b THEN s
  ELSE release(Push(s, Frame("op", "move_assign", 0, a, b, 0)), a, orc)

\* operator= that swaps with a temporary it did not count
CopyAssign_uncounted(s, a, b, orc) ==
  IF a = b THEN s
  ELSE LET p == s.h[b]
           old == s.h[a]
           s2 == [s EXCEPT !.h[a] = MkPtr(p.ctrl, p.weak)]
       IN IF old.ctrl = NullCB THEN s2
          ELSE Push(s2, Frame(IF old.weak THEN "rw" ELSE "rs", "fetch_sub",
                              old.ctrl, 0, 0, 0))

\* operator=(const Ptr& other): Ptr tmp(other); swap(tmp); ~tmp
CopyAssign(s, a, b, orc) ==
  IF a = b THEN s
  ELSE LET p == s.h[b]
           old == s.h[a]
           s1 == IF p.ctrl = NullCB THEN s
                 ELSE IF p.weak THEN add_weak(s, p.ctrl) ELSE add_strong(s, p.ctrl)
           s2 == [s1 EXCEPT !.h[a] = MkPtr(p.ctrl, p.weak)]
       IN IF old.ctrl = NullCB THEN s2
          ELSE Push(s2, Frame(IF old.weak THEN "rw" ELSE "rs", "fetch_sub",
                              old.ctrl, 0, 0, 0))

\* swap(other)
swap(s, a, b) == [s EXCEPT !.h[a] = s.h[b], !.h[b] = s.h[a]]

\* safe(strong_ref), returned into the unconstructed handle a
safe(s, a, b) ==
  LET p == s.h[b] IN
  IF p.ctrl = NullCB \/ p.weak THEN [s EXCEPT !.h[a] = NullPtr]
  ELSE add_weak([s EXCEPT !.h[a] = MkPtr(p.ctrl, TRUE)], p.ctrl)

\* lock(), returned into the unconstructed handle a
lock(s, a, b, orc) ==
  LET p == s.h[b] IN
  IF ~p.weak \/ p.ctrl = NullCB THEN CopyCtor(s, a, b, orc)
  ELSE Push(s, Frame("lock", "tas_load", p.ctrl, a, b, 0))

\* get() without the test of is_weak_
get_unchecked(s, hd) ==
  LET p == s.h[hd] IN
  IF p.ctrl = NullCB THEN NullCB
  ELSE get_ptr(s, p.ctrl)

\* get()
get(s, hd) ==
  LET p == s.h[hd] IN
  IF p.ctrl = NullCB THEN NullCB
  ELSE IF p.weak THEN NullCB
  ELSE get_ptr(s, p.ctrl)

\* expired()
expired(s, hd) == s.h[hd].ctrl = NullCB \/ ~is_alive(s, s.h[hd].ctrl)

\* operator==(const Ptr&)
PtrEq(s, a, b) == get(s, a) = get(s, b)

\* ------------------------------------------------------------ the C facade
Blocks == 1..MaxBlocks
NullRaw == 0
NoArray == [st |-> "none", size |-> 0, zeroed |-> FALSE, owners |-> 0, logged |-> FALSE]
NoCall == [pc |-> "idle", zero |-> FALSE, total |-> 0, holder |-> NullRaw,
           raw |-> NullRaw, ret |-> NullRaw]
\* new char[size] returns the next array
FreshArray == {b \in Blocks : heap[b].st = "none" /\ \A d \in 1..(b - 1) : heap[d].st # "none"}

\* ------------------------------------------------ the single-threaded program
Init ==
  /\ cb = [c \in CBs |-> NoBlock]
  /\ h = [hd \in Handles |-> DeadPtr]
  /\ stk = [t \in Threads |-> <<>>]
  /\ del = [c \in CBs |-> 0]
  /\ free = [c \in CBs |-> 0]
  /\ uaf = FALSE
  /\ wrap = FALSE
  /\ heap = [b \in Blocks |-> NoArray]
  /\ call = NoCall
  /\ held = {}

SeqSlot == 1..SeqSlots

\* Values the program can name: through operator-> of a strong handle variable,
\* then through the member next of a value it can name.
RECURSIVE Reach(_)
Reach(n) ==
  IF n = 0
  THEN {c \in CBs : \E a \in SeqSlot :
          h[a].live /\ ~h[a].weak /\ h[a].ctrl = c /\ get_ptr(St(1), c) = c}
  ELSE LET R == Reach(n - 1)
       IN R \cup {c \in CBs : \E d \in R :
                    /\ h[Member(d)].live /\ ~h[Member(d)].weak
                    /\ h[Member(d)].ctrl = c /\ get_ptr(St(1), c) = c}

\* Handles the program can name.
Born == {a \in SeqSlot : h[a].live}
Named == Born \cup {Member(c) : c \in Reach(NumCB)}
\* the next handle variable the program declares
Unborn == {a \in SeqSlot : ~h[a].live /\ \A b \in 1..(a - 1) : h[b].live}
\* new Node allocates the next value
Fresh == {c \in CBs : cb[c].st = "none" /\ \A d \in 1..(c - 1) : cb[d].st # "none"}

\* One handler, run to its return.  F(orc) is the handler's result when reads of
\* freed memory return orc; a run that never reads freed memory has one result.
\* The program is followed up to its first fault, an access to freed memory or a
\* counter taken below zero: the handler that faults runs to its return, and the
\* program is not followed further.
Quiet == [n |-> 0, b |-> FALSE]
Faulted == uaf \/ wrap
Act(t, F(_)) ==
  LET r == F(Quiet)
  IN IF ~uaf /\ ~r.uaf THEN Commit(t, r) ELSE \E orc \in Oracle : Commit(t, F(orc))
Done(F(_)) == ~Faulted /\ Act(1, F)

OpPtrFromRaw(a, c) == Done(LAMBDA orc : PtrFromRaw(St(1), a, c))
OpPtrDefault(a) == Done(LAMBDA orc : PtrDefault(St(1), a))
OpCopyCtor(a, b) == Done(LAMBDA orc : CopyCtor(St(1), a, b, orc))
OpMoveCtor(a, b) == Done(LAMBDA orc : MoveCtor(St(1), a, b))
OpPtrDtor(a) == Done(LAMBDA orc : Run(PtrDtor(St(1), a, orc), orc))
OpReset(a) == Done(LAMBDA orc : Run(reset(St(1), a, orc), orc))
OpRef(a, b) == Done(LAMBDA orc : Run(Ref(St(1), a, b, orc), orc))
OpCopyAssign(a, b) == Done(LAMBDA orc : Run(CopyAssign(St(1), a, b, orc), orc))
OpMoveAssign(a, b) == Done(LAMBDA orc : Run(MoveAssign(St(1), a, b, orc), orc))
OpSwap(a, b) == Done(LAMBDA orc : swap(St(1), a, b))
OpSafe(a, b) == Done(LAMBDA orc : safe(St(1), a, b))
OpLock(a, b) == Done(LAMBDA orc : Run(lock(St(1), a, b, orc), orc))

DoPtrFromRaw == \E a \in Unborn, c \in Fresh : OpPtrFromRaw(a, c)
DoPtrDefault == \E a \in Unborn : OpPtrDefault(a)
DoCopyCtor == \E a \in Unborn, b \in Named : OpCopyCtor(a, b)
DoMoveCtor == \E a \in Unborn, b \in Named : OpMoveCtor(a, b)
DoPtrDtor == \E a \in Born : OpPtrDtor(a)
DoReset == \E a \in Named : OpReset(a)
DoRef == \E a \in Named, b \in Named : OpRef(a, b)
DoCopyAssign == \E a \in Named, b \in Named : OpCopyAssign(a, b)
DoMoveAssign == \E a \in Named, b \in Named : OpMoveAssign(a, b)
DoSwap == \E a \in Named, b \in Named : a < b /\ OpSwap(a, b)
DoSafe == \E a \in Unborn, b \in Named : OpSafe(a, b)
DoLock == \E a \in Unborn, b \in Named : OpLock(a, b)

Next ==
  \/ DoPtrFromRaw
  \/ DoPtrDefault
  \/ DoCopyCtor
  \/ DoMoveCtor
  \/ DoPtrDtor
  \/ DoReset
  \/ DoRef
  \/ DoCopyAssign
  \/ DoMoveAssign
  \/ DoSwap
  \/ DoSafe
  \/ DoLock

Spec == Init /\ [][Next]_vars

\* ---- the round trip: construct from a value, copy N times, release in any order
RtSlot == 1..(MaxCopies + 1)
RtBorn == {a \in RtSlot : h[a].live}
RtUnborn == {a \in RtSlot : ~h[a].live /\ \A b \in 1..(a - 1) : h[b].live}

RtPtrFromRaw == \E a \in RtUnborn, c \in Fresh : OpPtrFromRaw(a, c)
RtCopyCtor == \E a \in RtUnborn, b \in RtBorn : OpCopyCtor(a, b)
RtPtrDtor == \E a \in RtBorn : OpPtrDtor(a)

NextRoundTrip ==
  \/ RtPtrFromRaw
  \/ RtCopyCtor
  \/ RtPtrDtor

SpecRoundTrip == Init /\ [][NextRoundTrip]_vars

\* ------------------------------------------------ the multi-threaded programs
\* Each thread has its own handle variables and runs one handler at a time; the
\* steps of the handlers of different threads interleave.  A thread reads a
\* handle of another thread (to copy it, or to derive a weak handle from it)
\* only while that thread runs no handler.  A handler that has begun runs on
\* after a fault; no new handler begins.
Mine(t) == {hd \in ConcSlots : Owner(hd) = t}
Idle(t) == stk[t] = <<>>
MyBorn(t) == {a \in Mine(t) : h[a].live}
MyUnborn(t) == {a \in Mine(t) : ~h[a].live /\ \A b \in Mine(t) : b < a => h[b].live}
Readable == {b \in ConcSlots : h[b].live /\ Idle(Owner(b))}
ConcFresh == {c \in Fresh : c <= ConcValues}
Begin(t, F(_)) == Idle(t) /\ ~Faulted /\ Act(t, F)

ThPtrFromRaw ==
  \E t \in Threads, a \in Handles, c \in ConcFresh :
    a \in MyUnborn(t) /\ Begin(t, LAMBDA orc : PtrFromRaw(St(t), a, c))
ThCopyCtor ==
  \E t \in Threads, a \in Handles, b \in Readable :
    a \in MyUnborn(t) /\ Begin(t, LAMBDA orc : CopyCtor(St(t), a, b, orc))
ThMoveCtor ==
  \E t \in Threads, a \in Handles, b \in Handles :
    a \in MyUnborn(t) /\ b \in MyBorn(t) /\ Begin(t, LAMBDA orc : MoveCtor(St(t), a, b))
ThReset ==
  \E t \in Threads, a \in Handles :
    a \in MyBorn(t) /\ Begin(t, LAMBDA orc : reset(St(t), a, orc))
ThPtrDtor ==
  \E t \in Threads, a \in Handles :
    a \in MyBorn(t) /\ Begin(t, LAMBDA orc : PtrDtor(St(t), a, orc))
ThSafe ==
  \E t \in Threads, a \in Handles, b \in Readable :
    a \in MyUnborn(t) /\ Begin(t, LAMBDA orc : safe(St(t), a, b))
ThLock ==
  \E t \in Threads, a \in Handles, b \in Handles :
    a \in MyUnborn(t) /\ b \in MyBorn(t) /\ Begin(t, LAMBDA orc : lock(St(t), a, b, orc))
\* the next atomic step of the handler thread t is running
ThStep ==
  \E t \in Threads : ~Idle(t) /\ Act(t, LAMBDA orc : Step(St(t), orc))

NextStrong ==
  \/ ThPtrFromRaw
  \/ ThCopyCtor
  \/ ThMoveCtor
  \/ ThReset
  \/ ThPtrDtor
  \/ ThStep

SpecStrong == Init /\ [][NextStrong]_vars

NextWeak ==
  \/ ThPtrFromRaw
  \/ ThCopyCtor
  \/ ThSafe
  \/ ThLock
  \/ ThPtrDtor
  \/ ThStep

SpecWeak == Init /\ [][NextWeak]_vars

\* ---- lock() against the release of strong handles: the threads keep their
\* weak handles and destruct strong and null handles only
ThStrongDtor ==
  \E t \in Threads, a \in Handles :
    /\ a \in MyBorn(t) /\ ~(h[a].weak /\ h[a].ctrl # NullCB)
    /\ Begin(t, LAMBDA orc : PtrDtor(St(t), a, orc))

NextLock ==
  \/ ThPtrFromRaw
  \/ ThCopyCtor
  \/ ThSafe
  \/ ThLock
  \/ ThStrongDtor
  \/ ThStep

SpecLock == Init /\ [][NextLock]_vars

\* the scheduler lets every thread that is inside a handler take its next step
ThreadStep(t) == ~Idle(t) /\ Act(t, LAMBDA orc : Step(St(t), orc))
SpecLockFair == SpecLock /\ \A t \in Threads : WF_vars(ThreadStep(t))

\* ---- one handle instance used by several threads at once: a thread copies or
\* swaps a handle variable of another thread while that thread is using it
InUse(hd) ==
  \E t \in Threads : \E i \in 1..Len(stk[t]) : stk[t][i].a = hd \/ stk[t][i].b = hd
\* hd is being destructed
Dying(hd) ==
  \E t \in Threads : \E i \in 1..Len(stk[t]) : stk[t][i].k = "op" /\ stk[t][i].a = hd
ShPtrDefault ==
  \E t \in Threads, a \in Handles :
    a \in MyUnborn(t) /\ Begin(t, LAMBDA orc : PtrDefault(St(t), a))
ShCopyCtor ==
  \E t \in Threads, a \in Handles, b \in ConcSlots :
    /\ a \in MyUnborn(t) /\ b \notin Mine(t) /\ h[b].live /\ ~Dying(b)
    /\ \A c \in CBs : cb[c].strong + cb[c].weak < MaxCopies
    /\ Begin(t, LAMBDA orc : Push(St(t), Frame("copy", "load_ctrl", 0, a, b, 0)))
ShSwap ==
  \E t \in Threads, a \in Handles, b \in Handles :
    /\ a \in MyBorn(t) /\ b \in MyBorn(t) /\ a # b
    /\ Begin(t, LAMBDA orc : Push(St(t), Frame("swap", "xchg_ctrl", 0, a, b, 0)))
\* a strong or null handle is destructed when no handler is working on it
ShPtrDtor ==
  \E t \in Threads, a \in Handles :
    /\ a \in MyBorn(t) /\ ~InUse(a) /\ ~h[a].weak
    /\ Begin(t, LAMBDA orc : PtrDtor(St(t), a, orc))

NextShared ==
  \/ ThPtrFromRaw
  \/ ShPtrDefault
  \/ ThSafe
  \/ ShCopyCtor
  \/ ShSwap
  \/ ShPtrDtor
  \/ ThStep

SpecShared == Init /\ [][NextShared]_vars

\* ---- the C program: calls of the allocators, one statement per step
\* PtrBase gc_local_malloc(size_t size): the call begins, LocalPtrCpp cpp is
\* constructed with raw null and holder empty
gc_local_malloc(size) ==
  /\ call = NoCall /\ FreshArray # {}
  /\ call' = [NoCall EXCEPT !.pc = "new", !.total = size]
  /\ UNCHANGED <<cb, h, stk, del, free, uaf, wrap, heap, held>>
\* PtrBase gc_local_calloc(size_t count, size_t size)
gc_local_calloc(count, size) ==
  /\ call = NoCall /\ FreshArray # {}
  /\ call' = [NoCall EXCEPT !.pc = "new", !.total = count * size, !.zero = TRUE]
  /\ UNCHANGED <<cb, h, stk, del, free, uaf, wrap, heap, held>>
\* the next statement of the running call
CStep ==
  /\ call.pc # "idle"
  /\ UNCHANGED <<cb, h, stk, del, free, uaf, wrap>>
  /\ CASE call.pc = "new" ->      \* cpp.holder = shared_ptr<char>(new char[n], DebugDeleter{})
            \E b \in FreshArray :
              /\ heap' = [heap EXCEPT ![b] = [NoArray EXCEPT !.st = "allocated",
                                                !.size = call.total, !.owners = 1]]
              /\ call' = [call EXCEPT !.holder = b,
                                      !.pc = IF call.zero THEN "memset" ELSE "raw"]
              /\ held' = held
       [] call.pc = "memset" ->   \* std::memset(cpp.holder.get(), 0, total)
            /\ heap' = [heap EXCEPT ![call.holder].zeroed = TRUE]
            /\ call' = [call EXCEPT !.pc = "raw"]
            /\ held' = held
       [] call.pc = "raw" ->      \* cpp.raw = cpp.holder.get()
            /\ call' = [call EXCEPT !.raw = call.holder, !.pc = "result"]
            /\ UNCHANGED <<heap, held>>
       [] call.pc = "result" ->   \* return *(PtrBase*)&cpp: the result takes cpp.raw
            /\ call' = [call EXCEPT !.ret = call.raw, !.pc = "dtor"]
            /\ UNCHANGED <<heap, held>>
       [] call.pc = "dtor" ->     \* ~LocalPtrCpp: holder gives up its ownership
            /\ heap' = [heap EXCEPT ![call.holder].owners = @ - 1]
            /\ call' = [call EXCEPT !.holder = NullRaw,
                                    !.pc = IF heap[call.holder].owners = 1
                                           THEN "log" ELSE "return"]
            /\ held' = held
       [] call.pc = "log" ->      \* DebugDeleter: std::cout << "Freed memory @ " << ptr
            /\ heap' = [heap EXCEPT ![call.raw].logged = TRUE]
            /\ call' = [call EXCEPT !.pc = "delete"]
            /\ held' = held
       [] call.pc = "delete" ->   \* DebugDeleter: delete[] ptr
            /\ heap' = [heap EXCEPT ![call.raw].st = "freed"]
            /\ call' = [call EXCEPT !.pc = "return"]
            /\ held' = held
       [] OTHER ->                \* "return": the macro takes .raw of the result
            /\ held' = held \cup {call.ret}
            /\ call' = NoCall
            /\ heap' = heap

NextC ==
  \/ \E size \in 1..MaxSize : gc_local_malloc(size)
  \/ \E count \in 1..MaxSize, size \in 1..MaxSize : gc_local_calloc(count, size)
  \/ CStep

SpecC == Init /\ [][NextC]_vars

\* ---- construction from a raw pointer, the allocation of the block failing or not
OpPtrFromNull(a) == Done(LAMBDA orc : PtrFromNull(St(1), a))
OpPtrFromRawNoMem(a, c) == Done(LAMBDA orc : Run(PtrFromRawNoMem(St(1), a, c), orc))

CtPtrFromRaw == \E a \in Unborn, c \in Fresh : OpPtrFromRaw(a, c)
CtPtrFromRawNoMem == \E a \in Unborn, c \in Fresh : OpPtrFromRawNoMem(a, c)
CtPtrFromNull == \E a \in Unborn : OpPtrFromNull(a)
CtCopyCtor == \E a \in Unborn, b \in Born : OpCopyCtor(a, b)
CtSafe == \E a \in Unborn, b \in Born : OpSafe(a, b)
CtPtrDtor == \E a \in Born : OpPtrDtor(a)

NextCtor ==
  \/ CtPtrFromRaw
  \/ CtPtrFromRawNoMem
  \/ CtPtrFromNull
  \/ CtCopyCtor
  \/ CtSafe
  \/ CtPtrDtor

SpecCtor == Init /\ [][NextCtor]_vars

\* ---- copy-assignment between handle variables and members; a member next is
\* assigned strong or null handles only
Assignable(a, b) ==
  a \in Named /\ b \in Named /\ (a \in SeqSlot \/ h[b].ctrl = NullCB \/ ~h[b].weak)

CaPtrFromRaw == \E a \in Unborn, c \in Fresh : OpPtrFromRaw(a, c)
CaPtrDefault == \E a \in Unborn : OpPtrDefault(a)
CaSafe == \E a \in Unborn, b \in Born : OpSafe(a, b)
CaCopyAssign == \E a \in Handles, b \in Handles : Assignable(a, b) /\ OpCopyAssign(a, b)
CaPtrDtor == \E a \in Born : OpPtrDtor(a)

NextCopyAssign ==
  \/ CaPtrFromRaw
  \/ CaPtrDefault
  \/ CaSafe
  \/ CaCopyAssign
  \/ CaPtrDtor

SpecCopyAssign == Init /\ [][NextCopyAssign]_vars

\* ---- moves between handle variables and members
MvPtrFromRaw == \E a \in Unborn, c \in Fresh : OpPtrFromRaw(a, c)
MvCopyAssign == \E a \in Handles, b \in Handles : Assignable(a, b) /\ OpCopyAssign(a, b)
MvMoveCtor == \E a \in Unborn, b \in Named : OpMoveCtor(a, b)
MvMoveAssign == \E a \in Handles, b \in Handles : Assignable(a, b) /\ OpMoveAssign(a, b)
MvSafe == \E a \in Unborn, b \in Born : OpSafe(a, b)
MvPtrDtor == \E a \in Born : OpPtrDtor(a)

NextMove ==
  \/ MvPtrFromRaw
  \/ MvCopyAssign
  \/ MvMoveCtor
  \/ MvMoveAssign
  \/ MvSafe
  \/ MvPtrDtor

SpecMove == Init /\ [][NextMove]_vars

\* ---- the cycle program of test1.cpp: values linked to each other by Ref
\* One thread, its handlers taken step by step.  It makes values, copies their
\* handles, links the member next of a value to another value with Ref, and
\* lets its handle variables go out of scope once every value is linked.
Allocated == {c \in CBs : cb[c].st # "none"}
Untouched == \A c \in CBs : del[c] = 0
Linked == /\ Cardinality(Allocated) >= 2
          /\ \A c \in Allocated : h[Member(c)].live /\ h[Member(c)].ctrl \notin {NullCB, c}

CyPtrFromRaw ==
  \E a \in Unborn, c \in Fresh :
    Untouched /\ Begin(1, LAMBDA orc : PtrFromRaw(St(1), a, c))
CyCopyCtor ==
  \E a \in Unborn, b \in Born :
    Untouched /\ Begin(1, LAMBDA orc : CopyCtor(St(1), a, b, orc))
\* c->next.Ref(b)
CyRef ==
  \E c \in Reach(0), b \in Born :
    /\ Untouched
    /\ h[Member(c)].ctrl = NullCB /\ h[b].ctrl \notin {NullCB, c}
    /\ Begin(1, LAMBDA orc : Ref(St(1), Member(c), b, orc))
CyPtrDtor ==
  \E a \in Born :
    /\ Linked \/ ~Untouched
    /\ Begin(1, LAMBDA orc : PtrDtor(St(1), a, orc))
CyStep == ~Idle(1) /\ Act(1, LAMBDA orc : Step(St(1), orc))

NextCycle ==
  \/ CyPtrFromRaw
  \/ CyCopyCtor
  \/ CyRef
  \/ CyPtrDtor
  \/ CyStep

\* a handler that has begun runs on to its return
SpecCycle == Init /\ [][NextCycle]_vars /\ WF_vars(CyStep)

\* ------------------------------------------------------------------ claims
StrongHandles(c) == {hd \in Handles : h[hd].live /\ h[hd].ctrl = c /\ ~h[hd].weak}
WeakHandles(c) == {hd \in Handles : h[hd].live /\ h[hd].ctrl = c /\ h[hd].weak}

\* A handle whose release() has already taken its unit off the counter, the
\* handler (destructor, reset) not yet returned.
Releasing(hd) ==
  \E t \in Threads :
    /\ \E i \in 1..Len(stk[t]) : stk[t][i].k = "op" /\ stk[t][i].a = hd
    /\ ~(Head(stk[t]).pc = "fetch_sub" /\ Len(stk[t]) = 2)
Holding(c) == {hd \in StrongHandles(c) : ~Releasing(hd)}
Quiescent == \A t \in Threads : Idle(t)

\* C1: under construct-from-raw, copy, move, reset and destructor, in every
\* interleaving of threads that each use their own handles, the value is
\* deleted at most once, never while an unreleased strong handle refers to it,
\* and it has been deleted (once) when every handle has been released.
C1_DeletedOnceAfterLastRelease ==
  \A c \in CBs :
    /\ del[c] <= 1
    /\ del[c] = 1 => Holding(c) = {}
    /\ (cb[c].st # "none" /\ StrongHandles(c) = {} /\ Quiescent) => del[c] = 1

\* One thread has taken the count to zero and deleted the value while another,
\* which released its handle before, has not yet returned from its destructor.
C1_Witness ==
  \E c \in CBs, t \in Threads, u \in Threads :
    /\ t # u /\ del[c] = 1 /\ ~Idle(t) /\ ~Idle(u)
    /\ Head(stk[t]).k = "rs" /\ Head(stk[t]).pc = "load_weak"
    /\ Head(stk[u]).k = "op"

\* C2: when threads release their own handles to one control block concurrently,
\* the block is freed at most once and no thread reads or writes it after it
\* has been freed.
C2_BlockFreedOnceNeverTouchedAfter ==
  /\ \A c \in CBs : free[c] <= 1
  /\ ~uaf

\* C6: one strong handle, threads that lock() their own weak copy and drop the
\* result and the copy, one thread that releases the strong handle: every
\* handle lock() returned refers to a value and block not freed, and at the end
\* the value has been destroyed exactly once and the block freed exactly once.
C6_LockRaceEndsClean ==
  /\ \A hd \in ConcSlots :
       (h[hd].live /\ h[hd].ctrl # NullCB /\ ~h[hd].weak /\ ~Releasing(hd)) =>
         (cb[h[hd].ctrl].st = "live" /\ del[h[hd].ctrl] = 0)
  /\ \A c \in CBs :
       /\ del[c] <= 1 /\ free[c] <= 1
       /\ (/\ cb[c].st # "none" /\ Quiescent
           /\ \A hd \in ConcSlots : ~(h[hd].live /\ h[hd].ctrl = c))
          => (del[c] = 1 /\ free[c] = 1)

\* C3: after self.Ref(other), other being another handle, self is a weak handle
\* to other's block when other is non-null and strong, and a null handle (no
\* control-block reference) when other is null or weak; self is never strong
\* and non-null.  (Stated of the calls that touch no freed memory.)
C3_RefLeavesWeakOrNull ==
  [][\A a \in Handles, b \in Handles :
       (a # b /\ a \in Named /\ b \in Named /\ OpRef(a, b) /\ ~uaf') =>
         IF h[b].ctrl # NullCB /\ ~h[b].weak
         THEN h'[a] = MkPtr(h[b].ctrl, TRUE)
         ELSE h'[a] = NullPtr]_vars

\* C4: in every state the program reaches without touching freed memory, for
\* each live control block strong_count is the number of live strong handles
\* that refer to it and weak_count the number of live weak handles, and no
\* counter was ever decremented below zero.
C4_CountsMatchHandles ==
  ~uaf =>
    /\ \A c \in CBs : cb[c].st = "live" =>
         /\ cb[c].strong = Cardinality(StrongHandles(c))
         /\ cb[c].weak = Cardinality(WeakHandles(c))
    /\ ~wrap

\* C5: lock() on a weak handle whose value has been destroyed returns a null
\* handle; lock() on a weak handle while a strong handle to the same block is
\* live succeeds: it returns a strong handle to that block, equal to the strong
\* handle, and strong_count grows by exactly one.
C5_LockAfterAndBeforeDestruction ==
  [][\A a \in Handles, b \in Handles :
       (/\ a \in Unborn /\ b \in Named
        /\ h[b].weak /\ h[b].ctrl # NullCB
        /\ OpLock(a, b) /\ ~uaf') =>
         LET c == h[b].ctrl IN
         /\ del[c] > 0 => h'[a] = NullPtr
         /\ StrongHandles(c) # {} =>
              /\ h'[a] = MkPtr(c, FALSE)
              /\ cb'[c].strong = cb[c].strong + 1
              /\ \A x \in StrongHandles(c) :
                   get([cb |-> cb', h |-> h'], a) = get([cb |-> cb', h |-> h'], x)]_vars

\* C7: a value wrapped in a handle that is copied N times: while any of the N+1
\* handles is unreleased the value is not destroyed and the block not freed;
\* once all are released, in whatever order, the value has been destroyed
\* exactly once and the block freed exactly once.
C7_RoundTrip ==
  \A c \in CBs : cb[c].st # "none" =>
    /\ ~Faulted
    /\ IF StrongHandles(c) # {}
       THEN del[c] = 0 /\ free[c] = 0 /\ cb[c].st = "live"
       ELSE del[c] = 1 /\ free[c] = 1 /\ cb[c].st = "freed"

\* The handles of one value all released, a second value held by its first
\* handle and N copies.
C7_Witness ==
  \E c \in CBs, d \in CBs :
    /\ del[c] = 1 /\ free[c] = 1 /\ StrongHandles(c) = {}
    /\ Cardinality(StrongHandles(d)) = MaxCopies + 1 /\ del[d] = 0

\* C8: when the last strong handle to a value is released while a weak handle to
\* the same block is live, the value is destroyed at that release and the block
\* stays allocated; lock() on a remaining weak handle then returns null; and
\* the block is freed exactly when the last of the weak handles is released.
C8_WeakOutlivesValue ==
  [][\A c \in CBs :
       /\ (/\ cb[c].st = "live" /\ cb[c].strong = 1 /\ del[c] = 0
           /\ WeakHandles(c) # {}
           /\ (cb'[c].st # "live" \/ cb'[c].strong = 0))
          => /\ del'[c] = 1
             /\ cb'[c].st = "live" /\ free'[c] = 0
       /\ (/\ cb[c].st = "live" /\ cb[c].strong = 0 /\ del[c] = 1
           /\ WeakHandles(c) # {})
          => /\ \A a \in Unborn, b \in WeakHandles(c) :
                  (b \in Named /\ OpLock(a, b)) => h'[a] = NullPtr
             /\ cb'[c].st = "live" => (cb'[c].weak > 0 /\ free'[c] = 0)
             /\ cb'[c].st # "live" => (cb[c].weak = 1 /\ free'[c] = 1 /\ ~uaf')]_vars

\* C9: a weak handle never exposes the value and never keeps it alive: get() on
\* a weak handle is null in every state, and whatever the number of weak handles,
\* a block whose strong_count is 0 has had its value destroyed.
C9_WeakNeitherExposesNorKeepsAlive ==
  /\ \A hd \in Handles : (h[hd].live /\ h[hd].weak) => get(St(1), hd) = NullCB
  /\ \A c \in CBs : (cb[c].st = "live" /\ cb[c].strong = 0) =>
       /\ del[c] = 1 /\ cb[c].destroyed /\ ~cb[c].ptr

\* A block kept allocated by a weak handle only: its value is destroyed.
C9_Witness ==
  \E c \in CBs : /\ cb[c].st = "live" /\ cb[c].strong = 0 /\ cb[c].weak > 0
                 /\ del[c] = 1 /\ WeakHandles(c) # {} /\ ~Faulted

RefTouches(a) == \A x \in SeqSlot : (x # a => h'[x] = h[x]) /\ h'[x].live = h[x].live

InDtor(a) == \E i \in 1..Len(stk[1]) : stk[1][i] = Frame("op", "dtor", 0, a, 0, 0)
AllDropped ==
  /\ Cardinality(Allocated) >= 2
  /\ \A a \in SeqSlot : ~h[a].live \/ InDtor(a)
AllGone == \A c \in Allocated : del[c] = 1 /\ free[c] = 1 /\ cb[c].st = "freed"
C11_RefCycleCollected ==
  /\ [](~uaf /\ \A c \in CBs : del[c] <= 1 /\ free[c] <= 1)
  /\ (AllDropped ~> (AllGone /\ Idle(1)))

\* The first value of the cycle is destroyed and its block still allocated, kept
\* by the link from the second value, whose handle is not yet released.
C11_Witness ==
  \E c \in CBs, d \in CBs :
    /\ c # d /\ del[c] = 1 /\ cb[c].st = "live" /\ cb[c].strong = 0
    /\ h[Member(d)] = MkPtr(c, TRUE) /\ cb[c].weak = 1
    /\ del[d] = 0 /\ cb[d].strong = 1 /\ cb[d].weak = 0 /\ Idle(1)

\* C12: Ptr(T*) on a non-null value when the allocation of the control block
\* fails: the value is deleted exactly once by the time the constructor is left,
\* no handle was constructed and no handle or block refers to the value;
\* Ptr(T*) on a null pointer allocates nothing and gives a null handle.
C12_CtorFailurePath ==
  [][/\ \A a \in Unborn, c \in Fresh :
          OpPtrFromRawNoMem(a, c) =>
            /\ del'[c] = 1 /\ free'[c] = 0 /\ cb'[c].st = "nomem"
            /\ ~h'[a].live /\ ~h'[Member(c)].live
            /\ \A hd \in Handles : h'[hd].ctrl # c
            /\ \A d \in CBs \ {c} : cb'[d] = cb[d] /\ del'[d] = del[d]
            /\ ~uaf'
     /\ \A a \in Unborn :
          OpPtrFromNull(a) =>
            /\ h'[a].live /\ h'[a].ctrl = NullCB /\ ~h'[a].weak
            /\ cb' = cb /\ del' = del /\ free' = free]_vars

\* A value whose block could not be allocated is deleted, beside a null handle
\* made from a null pointer and a handle whose construction succeeded.
C12_Witness ==
  \E c \in CBs, d \in CBs, a \in SeqSlot, b \in SeqSlot :
    /\ cb[c].st = "nomem" /\ del[c] = 1 /\ ~h[Member(c)].live
    /\ h[a] = NullPtr /\ h[b] = MkPtr(d, FALSE) /\ cb[d].st = "live"

\* C13: try_add_strong returns true only in the step that changes strong_count
\* from the n > 0 it observed to n + 1, and false only having observed 0 and
\* changing nothing; and whatever releases run concurrently, a strong_count that
\* has reached 0 is never made positive again.
C13_TryAddStrongAtomic ==
  [][/\ \A t \in Threads :
          (/\ ~Idle(t) /\ Head(stk[t]).k = "lock" /\ Head(stk[t]).pc = "tas_cas"
           /\ stk'[t] = Tail(stk[t])) =>
            LET f == Head(stk[t]) IN
            /\ h'[f.a] \in {MkPtr(f.c, FALSE), NullPtr}
            /\ h'[f.a] = MkPtr(f.c, FALSE) =>
                 f.n > 0 /\ cb[f.c].strong = f.n /\ cb'[f.c].strong = f.n + 1
            /\ h'[f.a] = NullPtr => f.n = 0 /\ cb' = cb
     /\ \A c \in CBs :
          (cb[c].st = "live" /\ cb[c].strong = 0) => cb'[c].strong = 0]_vars

\* A lock() that observed a positive count finds it 0 at its compare-exchange:
\* the last strong handle was released in between.
C13_Witness ==
  \E t \in Threads :
    /\ ~Idle(t) /\ Head(stk[t]).k = "lock" /\ Head(stk[t]).pc = "tas_cas"
    /\ Head(stk[t]).n > 0
    /\ cb[Head(stk[t]).c].st = "live" /\ cb[Head(stk[t]).c].strong = 0

\* C14: every call of try_add_strong returns: when the scheduler is fair and the
\* other threads begin only finitely many operations, a thread that is inside
\* try_add_strong leaves it, its compare-exchange having succeeded or its
\* count being 0.
InLock(t) == ~Idle(t) /\ Head(stk[t]).k = "lock"
OtherBegins(t) ==
  \E u \in Threads \ {t} :
    Idle(u) /\ (stk'[u] # stk[u] \/ \E hd \in Mine(u) : h'[hd] # h[hd])
C14_TryAddStrongTerminates ==
  \A t \in Threads :
    (<>[][~OtherBegins(t)]_vars) => (InLock(t) ~> ~InLock(t))

\* The count a lock() observed was changed by another thread before its
\* compare-exchange, the value still alive: the loop has to go round again.
C14_Witness ==
  \E t \in Threads :
    /\ InLock(t) /\ Head(stk[t]).pc = "tas_cas" /\ Head(stk[t]).n > 0
    /\ cb[Head(stk[t]).c].strong > 0
    /\ cb[Head(stk[t]).c].strong # Head(stk[t]).n

\* C15: a value whose member next is a weak handle to the value's own block:
\* the destructor of the last strong handle destroys the value exactly once and
\* frees the block exactly once, and release_strong does not read or free the
\* block after the release_weak nested in the value's destructor has freed it.
C15_SelfWeakReleasedCleanly ==
  [][\A a \in Born :
       LET c == h[a].ctrl IN
       (/\ c # NullCB /\ ~h[a].weak
        /\ cb[c].st = "live" /\ cb[c].strong = 1 /\ cb[c].weak = 1 /\ del[c] = 0
        /\ h[Member(c)] = MkPtr(c, TRUE)
        /\ OpPtrDtor(a)) =>
         /\ del'[c] = 1 /\ free'[c] = 1 /\ cb'[c].st = "freed"
         /\ ~uaf']_vars

\* Every live handle with a block holds one unit on the matching counter of a
\* block that is allocated, a value is destroyed exactly when no strong unit is
\* left, and a block freed, once, exactly when no unit is left.
UnitsMatch(cbv, hv, delv, freev) ==
  \A c \in CBs :
    LET S == {hd \in Handles : hv[hd].live /\ hv[hd].ctrl = c /\ ~hv[hd].weak}
        W == {hd \in Handles : hv[hd].live /\ hv[hd].ctrl = c /\ hv[hd].weak}
    IN /\ cbv[c].st = "live" =>
            /\ cbv[c].strong = Cardinality(S) /\ cbv[c].weak = Cardinality(W)
            /\ S \cup W # {} /\ freev[c] = 0
            /\ delv[c] = (IF S = {} THEN 1 ELSE 0)
       /\ cbv[c].st = "freed" => (S \cup W = {} /\ delv[c] = 1 /\ freev[c] = 1)
       /\ cbv[c].st = "none" => (S \cup W = {} /\ delv[c] = 0 /\ freev[c] = 0)

\* a's previous reference is released once: its value is destroyed by the call
\* iff a held the last strong unit
PreviousReleased(a) ==
  LET w == h[a].ctrl IN
  w # NullCB =>
    del'[w] = (IF ~h[a].weak /\ cb[w].strong = 1 THEN 1 ELSE del[w])

C17_MoveTransfers ==
  [][/\ \A a \in Unborn, b \in Named :
          OpMoveCtor(a, b) =>
            /\ h'[a] = h[b] /\ h'[b] = NullPtr
            /\ cb' = cb /\ del' = del /\ free' = free
     /\ \A a \in Handles, b \in Handles :
          (Assignable(a, b) /\ OpMoveAssign(a, b)) =>
            IF a = b
            THEN UNCHANGED <<cb, h, del, free>>
            ELSE /\ h'[a] = h[b]
                 /\ h'[b] = NullPtr
                 /\ UnitsMatch(cb', h', del', free')
                 /\ PreviousReleased(a)
                 /\ ~uaf' /\ ~wrap']_vars

Resolves(hd) == IF h[hd].ctrl = NullCB THEN NullCB ELSE get_ptr(St(1), h[hd].ctrl)

\* C19: two handles (each null, strong or weak, on a block that is not freed)
\* compare equal exactly when they resolve to the same value address, whatever
\* their kinds.
C19_EqualityIgnoresKind ==
  ~Faulted =>
    \A a \in Named, b \in Named :
      (/\ h[a].ctrl # NullCB => cb[h[a].ctrl].st = "live"
       /\ h[b].ctrl # NullCB => cb[h[b].ctrl].st = "live")
      => (PtrEq(St(1), a, b) <=> (Resolves(a) = Resolves(b)))

\* C20: every block whose address an allocator call has handed to the caller
\* is still allocated when the call has returned; a block is freed only after
\* its last owner released it and the log line was printed.
C20_BlockAllocatedOnReturn ==
  /\ \A b \in Blocks : heap[b].st = "freed" => heap[b].logged /\ heap[b].owners = 0
  /\ \A b \in held : b # NullRaw /\ heap[b].st = "allocated"

====
